---- MODULE Spec2Model ----
\* Model of src/sw.js, the service worker of "Stock & Finanzas":
\* the install / activate / fetch handlers, the CacheStorage of the origin
\* and the browser's service-worker lifecycle that dispatches the events.
EXTENDS Integers, Sequences, FiniteSets, TLC

\* ------------------------------------------------------------------ bounds
MaxFetch == 2        \* fetch events dispatched in one behaviour
MaxInstalls == 2     \* install events: first registration plus updates
MaxForeign == 1      \* writes to the origin's CacheStorage by other scripts
MaxPush == 2         \* push events dispatched in one behaviour

\* --------------------------------------------------------------- constants
\* URLs are sequences of characters, abbreviated: scheme "h", hosts "a"
\* (the worker's own), "ab" (a longer host name) and "c" (the CDN).
CACHE_NAME == "stock-finanzas-v1"

SelfOrigin == <<"h", ":", "/", "/", "a">>
CdnOrigin == <<"h", ":", "/", "/", "c">>

ASSETS_TO_CACHE ==
  << <<"/">>,
     <<"/", "m">>,
     CdnOrigin \o <<"/", "1">>,
     CdnOrigin \o <<"/", "2">>,
     CdnOrigin \o <<"/", "3">> >>

\* variant: the fallback names a document the manifest does not hold
OfflinePath == <<"/", "o">>

\* the argument of caches.match('/')
RootPath == <<"/">>

\* ------------------------------------------------------------ URL helpers
\* String.prototype.startsWith
StartsWith(s, p) == Len(p) <= Len(s) /\ SubSeq(s, 1, Len(p)) = p

\* position of the "://" of an absolute URL, 0 when there is none
SchemeEnd(u) ==
  LET I == {i \in 1..(Len(u) - 2) :
              u[i] = ":" /\ u[i + 1] = "/" /\ u[i + 2] = "/"}
  IN IF I = {} THEN 0 ELSE CHOOSE i \in I : \A j \in I : i <= j

\* new URL(u, self.location): a path is resolved against the worker's origin
ResolveURL(u) == IF SchemeEnd(u) = 0 THEN SelfOrigin \o u ELSE u

\* the origin of an absolute URL: scheme, "://" and host, up to the path
OriginOf(u) ==
  LET s == SchemeEnd(u)
      J == {j \in (s + 3)..Len(u) : u[j] = "/"}
  IN IF J = {} THEN u
     ELSE SubSeq(u, 1, (CHOOSE j \in J : \A k \in J : j <= k) - 1)

RootURL == SelfOrigin \o <<"/">>
DashURL == SelfOrigin \o <<"/", "d">>
LongHostURL == <<"h", ":", "/", "/", "a", "b", "/", "d">>
CdnURL == CdnOrigin \o <<"/", "1">>

\* --------------------------------------------------------------- responses
Response(st, b) == [kind |-> "response", status |-> st, body |-> b]
\* the responses the network gives: two different 200s, a 204 and a 404
Responses ==
  {Response(200, "b1"), Response(200, "b2"), Response(204, "b1"), Response(404, "b1")}
Undefined == [kind |-> "undefined"]
Pending == [kind |-> "pending"]
Passthrough == [kind |-> "passthrough"]
NetworkError == [kind |-> "networkerror"]

\* outcomes of the fetches cache.addAll makes for the manifest
AssetOutcomes == {Response(200, "b1"), Response(404, "b1"), NetworkError}

\* the outcomes of one cache.addAll, one per manifest URL: every fetch gives
\* a 200, or one URL alone ends otherwise, or all of them end alike
AssetOutcomeVectors ==
  {outs \in [1..Len(ASSETS_TO_CACHE) -> AssetOutcomes] :
     \/ Cardinality({i \in DOMAIN outs : outs[i] # Response(200, "b1")}) <= 1
     \/ \A i, j \in DOMAIN outs : outs[i] = outs[j]}

\* Response.ok
IsOk(r) == r.kind = "response" /\ r.status >= 200 /\ r.status <= 299

\* ---------------------------------------------------------------- requests
Request(m, u, md) == [method |-> m, url |-> u, mode |-> md]
NoRequest == [method |-> "none"]
Requests ==
  { Request("GET", RootURL, "navigate"),
    Request("GET", DashURL, "navigate"),
    Request("GET", DashURL, "cors"),
    Request("POST", DashURL, "cors"),
    Request("GET", LongHostURL, "cors"),
    Request("GET", CdnURL, "no-cors") }


\* ------------------------------------------------------------ CacheStorage
\* CacheStorage is an ordered map name -> Cache (creation order); a Cache
\* maps the URL of a GET request to the response stored for it.
Store(n, e) == [name |-> n, entries |-> e]
EmptyEntries == [u \in {} |-> Undefined]

Names(c) == {c[i].name : i \in 1..Len(c)}
IndexOf(c, n) == CHOOSE i \in 1..Len(c) : c[i].name = n
HasStore(c, n) == n \in Names(c)

\* caches.open(name): creates the store when absent
CachesOpen(c, n) == IF HasStore(c, n) THEN c ELSE Append(c, Store(n, EmptyEntries))

\* caches.delete(name)
CachesDelete(c, n) == SelectSeq(c, LAMBDA s : s.name # n)

\* caches.keys()
CachesKeys(c) == [i \in 1..Len(c) |-> c[i].name]

PutEntry(e, u, r) == [k \in DOMAIN e \cup {u} |-> IF k = u THEN r ELSE e[k]]

\* variant: an existing entry is kept, the new response is dropped
CachePutKeepFirst(c, n, u, r) ==
  [i \in 1..Len(c) |->
     IF c[i].name = n /\ u \notin DOMAIN c[i].entries
     THEN Store(n, PutEntry(c[i].entries, u, r)) ELSE c[i]]

\* cache.put(request, response) on the store named n
CachePut(c, n, u, r) ==
  [i \in 1..Len(c) |->
     IF c[i].name = n THEN Store(n, PutEntry(c[i].entries, u, r)) ELSE c[i]]

NotLooked == [kind |-> "none"]
NoMatch == [kind |-> "miss"]
Hit(n, r) == [kind |-> "hit", store |-> n, response |-> r]

\* caches.match(request): the stores are searched in creation order and the
\* first store holding an entry for the request answers
CachesMatch(c, u) ==
  LET I == {i \in 1..Len(c) : u \in DOMAIN c[i].entries}
  IN IF I = {} THEN NoMatch
     ELSE LET i == CHOOSE k \in I : \A j \in I : k <= j
          IN Hit(c[i].name, c[i].entries[u])

\* the store named CACHE_NAME, as a set of entries (empty when absent)
CurrentEntries(c) ==
  IF HasStore(c, CACHE_NAME) THEN c[IndexOf(c, CACHE_NAME)].entries
  ELSE EmptyEntries

\* cache.addAll(urls): every URL is fetched; the entries are written in one
\* batch when every response is ok, nothing is written otherwise
RECURSIVE PutAll(_, _, _, _, _)
PutAll(c, n, urls, outs, i) ==
  IF i > Len(urls) THEN c
  ELSE PutAll(CachePut(c, n, ResolveURL(urls[i]), outs[i]), n, urls, outs, i + 1)

\* variant: every ok response is stored, whatever the others did
RECURSIVE PutOk(_, _, _, _, _)
PutOk(c, n, urls, outs, i) ==
  IF i > Len(urls) THEN c
  ELSE PutOk(IF IsOk(outs[i]) THEN CachePut(c, n, ResolveURL(urls[i]), outs[i]) ELSE c,
             n, urls, outs, i + 1)

CacheAddAllPartial(c, n, urls, outs) ==
  [ok |-> \A i \in 1..Len(urls) : IsOk(outs[i]),
   caches |-> PutOk(c, n, urls, outs, 1)]

CacheAddAll(c, n, urls, outs) ==
  IF \A i \in 1..Len(urls) : IsOk(outs[i])
  THEN [ok |-> TRUE, caches |-> PutAll(c, n, urls, outs, 1)]
  ELSE [ok |-> FALSE, caches |-> c]

\* ------------------------------------------------------------------- state
OtherNames == {"stock-finanzas-v0", "runtime-cache"}
ForeignNames == {"runtime-cache"}
OldResponse == Response(200, "old")
OldStore(n) == Store(n, PutEntry(EmptyEntries, DashURL, OldResponse))
InitialStorages ==
  { <<>>,
    <<OldStore("stock-finanzas-v0"), OldStore("runtime-cache")>> }

Slots == 1..MaxFetch

VARIABLES
  caches,          \* the origin's CacheStorage
  state,           \* ServiceWorker.state of the newest worker
  active,          \* an activated worker running this script exists
  skipWaitingFlag, \* set by self.skipWaiting()
  installs,        \* install events dispatched so far
  installPc,       \* position of the install handler's promise chain
  installPromise,  \* the promise passed to waitUntil by install
  activatePc,      \* position of the activate handler's promise chain
  cacheNames,      \* the names caches.keys() resolved with
  pendingDeletes,  \* caches.delete calls in flight
  deleted,         \* names whose caches.delete has resolved
  activatePromise, \* the promise passed to waitUntil by activate
  claim,           \* clients.claim(): "none", "pending", "done"
  log,             \* console.log lines of the newest worker
  fReq,            \* per fetch event: event.request
  fPc,             \* per fetch event: position of the respondWith chain
  fResp,           \* per fetch event: what the page receives
  fCached,         \* per fetch event: result of caches.match(event.request)
  fRoot,           \* per fetch event: result of caches.match('/')
  fPut,            \* per fetch event: position of the detached cache write
  fClone,          \* per fetch event: response.clone()
  fSeen,           \* per fetch event: the 200 responses the page had already
                   \* received from the network for the same URL at dispatch
  fResolved,       \* the fetch events whose network fetch gave a 200, in the
                   \* order in which the fetches resolved
  fWritten,        \* the fetch events whose cache.put has completed, in the
                   \* order in which the writes completed
  foreignWrites,   \* writes made by other scripts so far
  syncTag,         \* event.tag of the last sync event
  syncPromise,     \* the promise the last sync event passed to waitUntil
  pushed,          \* what the push service delivered, one item per push event
  shown,           \* the showNotification calls made so far
  showing,         \* showNotification promises still to settle
  displayed,       \* a notification tagged 'stock-notification' is on screen
  clicks,          \* event.action of the notificationclick events so far
  closed,          \* notification.close() calls made so far
  opening,         \* clients.openWindow promises still to settle
  windows          \* the URLs of the windows opened so far

lifecycleVars == <<state, active, skipWaitingFlag, installs>>
installVars == <<installPc, installPromise>>
activateVars == <<activatePc, cacheNames, pendingDeletes, deleted, activatePromise, claim>>
fetchVars == <<fReq, fPc, fResp, fCached, fRoot, fPut, fClone, fSeen, fResolved, fWritten>>
eventVars == <<syncTag, syncPromise, pushed, shown, showing, displayed, clicks, closed,
               opening, windows>>
vars == <<caches, lifecycleVars, installVars, activateVars, log, fetchVars, foreignWrites,
          eventVars>>

Init ==
  /\ caches \in InitialStorages
  /\ state = "parsed"
  /\ active = FALSE
  /\ skipWaitingFlag = FALSE
  /\ installs = 0
  /\ installPc = "idle"
  /\ installPromise = "none"
  /\ activatePc = "idle"
  /\ cacheNames = <<>>
  /\ pendingDeletes = {}
  /\ deleted = {}
  /\ activatePromise = "none"
  /\ claim = "none"
  /\ log = {}
  /\ fReq = [h \in Slots |-> NoRequest]
  /\ fPc = [h \in Slots |-> "idle"]
  /\ fResp = [h \in Slots |-> Pending]
  /\ fCached = [h \in Slots |-> NotLooked]
  /\ fRoot = [h \in Slots |-> NotLooked]
  /\ fPut = [h \in Slots |-> "none"]
  /\ fClone = [h \in Slots |-> Undefined]
  /\ fSeen = [h \in Slots |-> {}]
  /\ fResolved = <<>>
  /\ fWritten = <<>>
  /\ foreignWrites = 0
  /\ syncTag = "(none)"
  /\ syncPromise = "none"
  /\ pushed = <<>>
  /\ shown = <<>>
  /\ showing = 0
  /\ displayed = FALSE
  /\ clicks = <<>>
  /\ closed = 0
  /\ opening = 0
  /\ windows = <<>>

\* ----------------------------------------------------------------- install
\* variant: no catch, the rejection reaches waitUntil
InstallNoCatch(err) == [promise |-> "rejected", logged |-> {}]

\* .catch((err) => { console.log(...) }): the rejection is absorbed
InstallCatch(err) ==
  [promise |-> "fulfilled",
   logged |-> {<<"Service Worker: Error al cachear", err>>}]

\* the install listener runs: it passes the promise chain to waitUntil and
\* calls self.skipWaiting(); the worker it runs in is new, and so are its
\* console and its activate handler
InstallEvent ==
  /\ state' = "installing"
  /\ installs' = installs + 1
  /\ log' = {<<"Service Worker: Instalando...">>}
  /\ installPromise' = "pending"
  /\ installPc' = "opening"
  /\ skipWaitingFlag' = TRUE
  /\ activatePc' = "idle"
  /\ cacheNames' = <<>>
  /\ pendingDeletes' = {}
  /\ deleted' = {}
  /\ activatePromise' = "none"
  /\ claim' = "none"
  /\ UNCHANGED <<caches, active, fetchVars, foreignWrites, eventVars>>

\* the runtime installs the script for the first time
Register ==
  /\ state = "parsed"
  /\ InstallEvent

\* the runtime installs the script again (its bytes changed, CACHE_NAME did
\* not) while the previous worker is active
Update ==
  /\ state = "activated"
  /\ installs < MaxInstalls
  /\ InstallEvent

\* caches.open(CACHE_NAME) settles
InstallOpen(ok) ==
  /\ installPc = "opening"
  /\ IF ok
     THEN /\ caches' = CachesOpen(caches, CACHE_NAME)
          /\ log' = log \cup {<<"Service Worker: Cacheando archivos">>}
          /\ installPc' = "adding"
          /\ UNCHANGED installPromise
     ELSE /\ installPromise' = InstallCatch("open").promise
          /\ log' = log \cup InstallCatch("open").logged
          /\ installPc' = "settled"
          /\ UNCHANGED caches
  /\ UNCHANGED <<lifecycleVars, activateVars, fetchVars, foreignWrites, eventVars>>

\* cache.addAll(ASSETS_TO_CACHE) settles, its fetches having ended with
\* `outs`, and with it the promise passed to waitUntil
InstallAddAll(outs) ==
  /\ installPc = "adding"
  /\ LET res == CacheAddAll(caches, CACHE_NAME, ASSETS_TO_CACHE, outs)
     IN /\ caches' = res.caches
        /\ IF res.ok
           THEN /\ installPromise' = "fulfilled"
                /\ UNCHANGED log
           ELSE /\ installPromise' = InstallCatch("addAll").promise
                /\ log' = log \cup InstallCatch("addAll").logged
  /\ installPc' = "settled"
  /\ UNCHANGED <<lifecycleVars, activateVars, fetchVars, foreignWrites, eventVars>>

\* the runtime's Install algorithm once the waitUntil promise has settled
InstallFinish ==
  /\ state = "installing"
  /\ installPc = "settled"
  /\ state' = IF installPromise = "rejected" THEN "redundant" ELSE "installed"
  /\ UNCHANGED <<caches, active, skipWaitingFlag, installs, installVars, activateVars,
                 log, fetchVars, foreignWrites,
                 eventVars>>

\* ---------------------------------------------------------------- activate
\* variant: the guard is dropped, every store is deleted
ShouldDeleteAny(cache) == TRUE

\* if (cache !== CACHE_NAME)
ShouldDelete(cache) == cache # CACHE_NAME

\* the promise chain of the activate handler run to completion on storage c:
\* caches.keys(), then a caches.delete for every name the guard selects
RECURSIVE DeleteEach(_, _, _)
DeleteEach(c, names, i) ==
  IF i > Len(names) THEN c
  ELSE DeleteEach(IF ShouldDelete(names[i]) THEN CachesDelete(c, names[i]) ELSE c,
                  names, i + 1)

Sweep(c) == DeleteEach(c, CachesKeys(c), 1)

\* the activate event is dispatched; the handler calls caches.keys() and
\* self.clients.claim()
ActivateEvent ==
  /\ state = "installed"
  /\ skipWaitingFlag \/ ~active
  /\ state' = "activating"
  /\ log' = log \cup {<<"Service Worker: Activando...">>}
  /\ activatePromise' = "pending"
  /\ activatePc' = "keys"
  /\ claim' = "pending"
  /\ UNCHANGED <<caches, active, skipWaitingFlag, installs, installVars, cacheNames,
                 pendingDeletes, deleted, fetchVars, foreignWrites, eventVars>>

\* variant: the Promise.all is not returned, the chain resolves at once
SweepDoneEarly(pending) == TRUE

\* Promise.all(...): resolved once every caches.delete has resolved
SweepDone(pending) == pending = {}

\* caches.keys() resolves; the callback starts a caches.delete per old name;
\* with nothing to delete Promise.all resolves and the waitUntil promise is
\* fulfilled in the same task
ActivateKeys ==
  /\ activatePc = "keys"
  /\ cacheNames' = CachesKeys(caches)
  /\ pendingDeletes' = {n \in Names(caches) : ShouldDelete(n)}
  /\ log' = log \cup {<<"Service Worker: Eliminando cache antiguo", n>> :
                        n \in {m \in Names(caches) : ShouldDelete(m)}}
  /\ IF SweepDone({n \in Names(caches) : ShouldDelete(n)})
     THEN activatePc' = "settled" /\ activatePromise' = "fulfilled"
     ELSE activatePc' = "deleting" /\ UNCHANGED activatePromise
  /\ UNCHANGED <<caches, lifecycleVars, installVars, deleted, claim,
                 fetchVars, foreignWrites, eventVars>>

\* one caches.delete(cache) resolves; when it is the last one Promise.all
\* resolves and the waitUntil promise is fulfilled in the same task
ActivateDelete(n) ==
  /\ activatePc \in {"deleting", "settled"}
  /\ n \in pendingDeletes
  /\ caches' = CachesDelete(caches, n)
  /\ pendingDeletes' = pendingDeletes \ {n}
  /\ deleted' = deleted \cup {n}
  /\ IF activatePc = "deleting" /\ SweepDone(pendingDeletes \ {n})
     THEN activatePc' = "settled" /\ activatePromise' = "fulfilled"
     ELSE UNCHANGED <<activatePc, activatePromise>>
  /\ UNCHANGED <<lifecycleVars, installVars, cacheNames, claim, log, fetchVars,
                 foreignWrites, eventVars>>

\* the runtime, after the waitUntil promise of activate has settled, makes
\* the worker "activated"
Activated ==
  /\ state = "activating"
  /\ activatePromise = "fulfilled"
  /\ state' = "activated"
  /\ active' = TRUE
  /\ UNCHANGED <<caches, skipWaitingFlag, installs, installVars, activateVars, log,
                 fetchVars, foreignWrites, eventVars>>

\* clients.claim() resolves
ClaimSettle ==
  /\ claim = "pending"
  /\ claim' = "done"
  /\ UNCHANGED <<caches, lifecycleVars, installVars, activatePc, cacheNames,
                 pendingDeletes, deleted, activatePromise, log, fetchVars, foreignWrites,
                 eventVars>>

\* ------------------------------------------------------------------- fetch
\* the guards of the fetch listener: respondWith is called only for a GET
\* request whose URL string starts with self.location.origin
Intercepts(request) ==
  /\ request.method = "GET"
  /\ StartsWith(request.url, SelfOrigin)

\* variant: every success status is cached
ShouldCacheOk(response) == response.status \in 200..299

\* if (response.status === 200)
ShouldCache(response) == response.status = 200

\* variant: the cached response found is not returned
AfterMatchDropsHit(request, found) ==
  IF request.mode = "navigate" THEN [next |-> "matchingRoot", resp |-> Pending]
  ELSE [next |-> "responded", resp |-> Undefined]

\* variant: the root document stands in for every miss
AfterMatchRootForAll(request, found) ==
  IF found.kind = "hit" THEN [next |-> "responded", resp |-> found.response]
  ELSE [next |-> "matchingRoot", resp |-> Pending]

\* the value the catch branch resolves with once caches.match(event.request)
\* has resolved with `found`: the response found, a second lookup for a
\* navigation, nothing otherwise
AfterMatch(request, found) ==
  IF found.kind = "hit" THEN [next |-> "responded", resp |-> found.response]
  ELSE IF request.mode = "navigate" THEN [next |-> "matchingRoot", resp |-> Pending]
  ELSE [next |-> "responded", resp |-> Undefined]

\* a fetch event of a controlled page is dispatched to the active worker;
\* the runtime holds fetch events back while the worker is activating
FetchEvent(h, request) ==
  /\ active
  /\ state # "activating"
  /\ fPc[h] = "idle"
  /\ IF h = 1 THEN TRUE ELSE fPc[h - 1] # "idle"
  /\ fReq' = [fReq EXCEPT ![h] = request]
  /\ fSeen' = [fSeen EXCEPT ![h] =
                 {fResp[j] : j \in {k \in Slots : /\ fPut[k] # "none"
                                                  /\ fReq[k].url = request.url}}]
  /\ IF Intercepts(request)
     THEN /\ fPc' = [fPc EXCEPT ![h] = "fetching"]
          /\ UNCHANGED fResp
     ELSE /\ fPc' = [fPc EXCEPT ![h] = "ignored"]
          /\ fResp' = [fResp EXCEPT ![h] = Passthrough]
  /\ UNCHANGED <<caches, lifecycleVars, installVars, activateVars, log, fCached, fRoot,
                 fPut, fClone, fResolved, fWritten, foreignWrites, eventVars>>

\* fetch(event.request) resolves: the then callback clones and starts the
\* detached cache write for a 200 and returns the response to the page
FetchResolve(h, response) ==
  /\ fPc[h] = "fetching"
  /\ fPc' = [fPc EXCEPT ![h] = "responded"]
  /\ fResp' = [fResp EXCEPT ![h] = response]
  /\ IF ShouldCache(response)
     THEN /\ fClone' = [fClone EXCEPT ![h] = response]
          /\ fPut' = [fPut EXCEPT ![h] = "opening"]
          /\ fResolved' = Append(fResolved, h)
     ELSE UNCHANGED <<fClone, fPut, fResolved>>
  /\ UNCHANGED <<caches, lifecycleVars, installVars, activateVars, log, fReq, fCached,
                 fRoot, fSeen, fWritten, foreignWrites, eventVars>>

\* fetch(event.request) rejects: the catch callback calls caches.match
FetchReject(h) ==
  /\ fPc[h] = "fetching"
  /\ fPc' = [fPc EXCEPT ![h] = "matching"]
  /\ UNCHANGED <<caches, lifecycleVars, installVars, activateVars, log, fReq, fResp,
                 fCached, fRoot, fPut, fClone, fSeen, fResolved, fWritten, foreignWrites,
                 eventVars>>

\* caches.match(event.request) resolves
FetchMatch(h) ==
  /\ fPc[h] = "matching"
  /\ LET found == CachesMatch(caches, fReq[h].url)
         res == AfterMatch(fReq[h], found)
     IN /\ fCached' = [fCached EXCEPT ![h] = found]
        /\ fPc' = [fPc EXCEPT ![h] = res.next]
        /\ fResp' = [fResp EXCEPT ![h] = res.resp]
  /\ UNCHANGED <<caches, lifecycleVars, installVars, activateVars, log, fReq, fRoot,
                 fPut, fClone, fSeen, fResolved, fWritten, foreignWrites,
                 eventVars>>

\* caches.match('/') resolves
FetchMatchRoot(h) ==
  /\ fPc[h] = "matchingRoot"
  /\ LET found == CachesMatch(caches, ResolveURL(RootPath))
     IN /\ fRoot' = [fRoot EXCEPT ![h] = found]
        /\ fResp' = [fResp EXCEPT ![h] =
                       IF found.kind = "hit" THEN found.response ELSE Undefined]
  /\ fPc' = [fPc EXCEPT ![h] = "responded"]
  /\ UNCHANGED <<caches, lifecycleVars, installVars, activateVars, log, fReq, fCached,
                 fPut, fClone, fSeen, fResolved, fWritten, foreignWrites,
                 eventVars>>

\* the detached caches.open(CACHE_NAME) settles; its callback calls cache.put
FetchPutOpen(h, ok) ==
  /\ fPut[h] = "opening"
  /\ IF ok
     THEN /\ caches' = CachesOpen(caches, CACHE_NAME)
          /\ fPut' = [fPut EXCEPT ![h] = "putting"]
     ELSE /\ fPut' = [fPut EXCEPT ![h] = "failed"]
          /\ UNCHANGED caches
  /\ UNCHANGED <<lifecycleVars, installVars, activateVars, log, fReq, fPc, fResp,
                 fCached, fRoot, fClone, fSeen, fResolved, fWritten, foreignWrites,
                 eventVars>>

\* cache.put(event.request, responseClone) completes
FetchPut(h) ==
  /\ fPut[h] = "putting"
  /\ caches' = CachePut(caches, CACHE_NAME, fReq[h].url, fClone[h])
  /\ fPut' = [fPut EXCEPT ![h] = "done"]
  /\ fWritten' = Append(fWritten, h)
  /\ UNCHANGED <<lifecycleVars, installVars, activateVars, log, fReq, fPc, fResp,
                 fCached, fRoot, fClone, fSeen, fResolved, foreignWrites, eventVars>>

\* a promise passed to waitUntil or respondWith is still to settle
LifetimeExtended ==
  \/ installPromise = "pending"
  \/ activatePromise = "pending"
  \/ \E h \in Slots : fPc[h] \in {"fetching", "matching", "matchingRoot"}
  \/ showing > 0
  \/ opening > 0

\* the runtime stops the idle worker: the callback of a detached
\* caches.open(CACHE_NAME) that has not resolved yet never runs
Terminate ==
  /\ ~LifetimeExtended
  /\ \E h \in Slots : fPut[h] = "opening"
  /\ fPut' = [h \in Slots |-> IF fPut[h] = "opening" THEN "aborted" ELSE fPut[h]]
  /\ UNCHANGED <<caches, lifecycleVars, installVars, activateVars, log, fReq, fPc,
                 fResp, fCached, fRoot, fClone, fSeen, fResolved, fWritten,
                 foreignWrites, eventVars>>

\* ------------------------------------------------------------------- sync
\* the tags a page registers syncs under
Tags == {"sync-data", "sync-datos", ""}

\* variant: every tag is honoured
SyncHonouredAny(tag) == TRUE

\* if (event.tag === 'sync-data')
SyncHonoured(tag) == tag = "sync-data"

\* syncData(): the executor of the new Promise logs and calls resolve()
\* before the promise is returned
SyncData(l) ==
  [promise |-> "fulfilled",
   log |-> l \cup {<<"Service Worker: Sincronizando datos...">>}]

\* the sync listener
SyncEvent(tag) ==
  /\ active /\ state = "activated"
  /\ syncTag' = tag
  /\ IF SyncHonoured(tag)
     THEN /\ syncPromise' = SyncData(log).promise
          /\ log' = SyncData(log).log
     ELSE /\ syncPromise' = "none"
          /\ UNCHANGED log
  /\ UNCHANGED <<caches, lifecycleVars, installVars, activateVars, fetchVars,
                 foreignWrites, pushed, shown, showing, displayed, clicks, closed,
                 opening, windows>>

\* ------------------------------------------------------------------- push
\* the characters of the push texts, with their Unicode code points
CodePoint(ch) ==
  CASE ch = " " -> 32
    [] ch = "3" -> 51
    [] ch = "k" -> 107
    [] ch = "ó" -> 243

CharOf(cp) ==
  CASE cp = 32 -> " "
    [] cp = 51 -> "3"
    [] cp = 107 -> "k"
    [] cp = 243 -> "ó"
    [] OTHER -> "�"

RECURSIVE Utf8Encode(_)
\* the bytes the push service carries for a text
Utf8Encode(t) ==
  IF t = <<>> THEN <<>>
  ELSE LET cp == CodePoint(Head(t))
       IN (IF cp < 128 THEN <<cp>> ELSE <<192 + (cp \div 64), 128 + (cp % 64)>>)
            \o Utf8Encode(Tail(t))

RECURSIVE Utf8Decode(_)
\* PushMessageData.text(): the bytes decoded as UTF-8
Utf8Decode(b) ==
  IF b = <<>> THEN <<>>
  ELSE IF b[1] >= 192 /\ b[1] < 224 /\ Len(b) >= 2
       THEN <<CharOf((b[1] - 192) * 64 + (b[2] - 128))>> \o Utf8Decode(Tail(Tail(b)))
       ELSE <<CharOf(b[1])>> \o Utf8Decode(Tail(b))

\* what the application server sends: nothing, or a text (the empty one too)
NoData == [kind |-> "null"]
Sent(t) == [kind |-> "data", text |-> t]
PushTexts == {<<>>, <<"3", " ", "k", "ó">>}
Pushes == {NoData} \cup {Sent(t) : t \in PushTexts}

\* event.data of the push event delivering what was sent
PushMessage(sent) ==
  IF sent = NoData THEN NoData ELSE [kind |-> "data", bytes |-> Utf8Encode(sent.text)]

\* 'Nueva actualización disponible'
DefaultBody ==
  <<"N", "u", "e", "v", "a", " ", "a", "c", "t", "u", "a", "l", "i", "z", "a", "c",
    "i", "ó", "n", " ", "d", "i", "s", "p", "o", "n", "i", "b", "l", "e">>

\* variant: an empty text counts as no payload
BodyOrDefault(data) ==
  IF data.kind = "data" /\ Utf8Decode(data.bytes) # <<>>
  THEN Utf8Decode(data.bytes) ELSE DefaultBody

\* body: event.data ? event.data.text() : 'Nueva actualización disponible'
Body(data) == IF data.kind = "data" THEN Utf8Decode(data.bytes) ELSE DefaultBody

\* const options = {...}
Options(data) ==
  [body |-> Body(data),
   icon |-> "/static/icons/icon-192x192.png",
   badge |-> "/static/icons/icon-72x72.png",
   vibrate |-> <<200, 100, 200>>,
   tag |-> "stock-notification",
   actions |-> <<[action |-> "open", title |-> "Abrir App"],
                 [action |-> "close", title |-> "Cerrar"]>>]

\* the push listener: event.waitUntil(showNotification('Stock & Finanzas', options))
PushEvent(sent) ==
  /\ active /\ state = "activated"
  /\ Len(pushed) < MaxPush
  /\ pushed' = Append(pushed, sent)
  /\ shown' = Append(shown, [title |-> "Stock & Finanzas",
                              options |-> Options(PushMessage(sent))])
  /\ showing' = showing + 1
  /\ UNCHANGED <<caches, lifecycleVars, installVars, activateVars, log, fetchVars,
                 foreignWrites, syncTag, syncPromise, displayed, clicks, closed,
                 opening, windows>>

\* showNotification resolves: the notification is on screen, in the place of
\* an earlier one with the same tag
ShowNotificationSettle ==
  /\ showing > 0
  /\ showing' = showing - 1
  /\ displayed' = TRUE
  /\ UNCHANGED <<caches, lifecycleVars, installVars, activateVars, log, fetchVars,
                 foreignWrites, syncTag, syncPromise, pushed, shown, clicks, closed,
                 opening, windows>>

\* ------------------------------------------------------- notificationclick
\* event.action: a button of the notification, the empty string for a click
\* on its body, or a button this script does not know
Actions == {"open", "close", "", "later"}

\* variant: only the close button keeps the window from opening
ShouldOpenUnlessClose(action) == action # "close"

\* if (event.action === 'open')
ShouldOpen(action) == action = "open"

\* the notificationclick listener
NotificationClick(action) ==
  /\ active /\ state = "activated"
  /\ displayed
  /\ displayed' = FALSE
  /\ closed' = closed + 1
  /\ clicks' = Append(clicks, action)
  /\ opening' = IF ShouldOpen(action) THEN opening + 1 ELSE opening
  /\ UNCHANGED <<caches, lifecycleVars, installVars, activateVars, log, fetchVars,
                 foreignWrites, syncTag, syncPromise, pushed, shown, showing, windows>>

\* clients.openWindow('/') resolves
OpenWindowSettle ==
  /\ opening > 0
  /\ opening' = opening - 1
  /\ windows' = Append(windows, ResolveURL(RootPath))
  /\ UNCHANGED <<caches, lifecycleVars, installVars, activateVars, log, fetchVars,
                 foreignWrites, syncTag, syncPromise, pushed, shown, showing,
                 displayed, clicks, closed>>

\* ------------------------------------------------------------- environment
\* another script of the origin (a page, or a superseded worker finishing a
\* write) stores a response in a store of its own
ForeignPut(n, u) ==
  /\ foreignWrites < MaxForeign
  /\ foreignWrites' = foreignWrites + 1
  /\ caches' = CachePut(CachesOpen(caches, n), n, u, OldResponse)
  /\ UNCHANGED <<lifecycleVars, installVars, activateVars, log, fetchVars, eventVars>>

\* ----------------------------------------------------------- specification
\* the steps of the install and activate handlers and of the runtime's
\* lifecycle around them
Lifecycle ==
  \/ \E ok \in BOOLEAN : InstallOpen(ok)
  \/ \E outs \in AssetOutcomeVectors : InstallAddAll(outs)
  \/ InstallFinish
  \/ ActivateEvent
  \/ ActivateKeys
  \/ \E n \in pendingDeletes : ActivateDelete(n)
  \/ Activated
  \/ ClaimSettle

\* the steps of the fetch handler
Fetching ==
  \/ \E h \in Slots, request \in Requests : FetchEvent(h, request)
  \/ \E h \in Slots, response \in Responses : FetchResolve(h, response)
  \/ \E h \in Slots : FetchReject(h)
  \/ \E h \in Slots : FetchMatch(h)
  \/ \E h \in Slots : FetchMatchRoot(h)
  \/ \E h \in Slots, ok \in BOOLEAN : FetchPutOpen(h, ok)
  \/ \E h \in Slots : FetchPut(h)
  \/ Terminate

Foreign == \E n \in ForeignNames, u \in {RootURL, DashURL} : ForeignPut(n, u)

\* one version of the worker: installed, activated, then serving fetches
Next == Register \/ Lifecycle \/ Fetching \/ Foreign

Spec == Init /\ [][Next]_vars

\* the functional events the page and the push service cause
Events ==
  \/ \E tag \in Tags : SyncEvent(tag)
  \/ \E sent \in Pushes : PushEvent(sent)
  \/ ShowNotificationSettle
  \/ \E action \in Actions : NotificationClick(action)
  \/ OpenWindowSettle

NextEvents == Register \/ Lifecycle \/ Events
\* one version of the worker: installed, activated, then handling sync,
\* push and notificationclick events
SpecEvents == Init /\ [][NextEvents]_vars

\* the lifecycle over several installations of the script
NextUpdate == Register \/ Update \/ Lifecycle \/ Foreign

SpecUpdate == Init /\ [][NextUpdate]_vars

\* ================================================================== claims
\* the responses the stores of c hold for URL u
EntriesFor(c, u) ==
  {c[i].entries[u] : i \in {k \in 1..Len(c) : u \in DOMAIN c[k].entries}}

\* the store named CACHE_NAME within c (an empty sequence when absent)
CurrentStore(c) == SelectSeq(c, LAMBDA s : s.name = CACHE_NAME)

ErrorLogged(l) ==
  \E err \in {"open", "addAll"} : <<"Service Worker: Error al cachear", err>> \in l

\* the requests the fetch listener has to leave alone
NotOwn(request) ==
  request.method # "GET" \/ OriginOf(request.url) # SelfOrigin

\* C1: a fetch event whose request is not a GET, or whose origin is not the
\* worker's own (a longer host name included), is not answered through
\* respondWith and starts no cache write.
C1_ForeignOrNonGetPassesThrough ==
  \A h \in Slots :
    (fPc[h] # "idle" /\ NotOwn(fReq[h]))
      => (fPc[h] = "ignored" /\ fResp[h] = Passthrough /\ fPut[h] = "none")

\* C2: once the page has received a 200 response from the network for a
\* same-origin GET, a later fetch of the same request whose network fetch
\* fails is answered with that response.
C2_OfflineAnswerIsOnlineResponse ==
  \A h \in Slots :
    (fPc[h] = "responded" /\ fCached[h] # NotLooked /\ fSeen[h] # {})
      => fResp[h] \in fSeen[h]

\* C3 as stated: when the population step settles, every manifest URL whose
\* own fetch succeeded has an entry in the store named CACHE_NAME.
C3_EverySuccessfulAssetStored ==
  [][(installPc = "adding" /\ installPc' = "settled")
       => \A outs \in AssetOutcomeVectors :
            InstallAddAll(outs)
              => \A i \in 1..Len(ASSETS_TO_CACHE) :
                   IsOk(outs[i])
                     => ResolveURL(ASSETS_TO_CACHE[i]) \in DOMAIN CurrentEntries(caches')]_vars

\* C3 amended: when the population step settles and every manifest fetch
\* ended with an ok response, the store named CACHE_NAME holds the fetched
\* response for every manifest URL; when any fetch failed the step leaves
\* the storage as it was.
C3_AllOrNothing ==
  [][(installPc = "adding" /\ installPc' = "settled")
       => \A outs \in AssetOutcomeVectors :
            InstallAddAll(outs)
              => IF \A i \in 1..Len(ASSETS_TO_CACHE) : IsOk(outs[i])
                 THEN \A i \in 1..Len(ASSETS_TO_CACHE) :
                        /\ ResolveURL(ASSETS_TO_CACHE[i]) \in DOMAIN CurrentEntries(caches')
                        /\ CurrentEntries(caches')[ResolveURL(ASSETS_TO_CACHE[i])] = outs[i]
                 ELSE caches' = caches]_vars

\* an install whose five fetches all gave a 200 has settled and stored them
C3_Witness ==
  /\ installPc = "settled"
  /\ installPromise = "fulfilled"
  /\ ~ErrorLogged(log)
  /\ \A i \in 1..Len(ASSETS_TO_CACHE) :
       ResolveURL(ASSETS_TO_CACHE[i]) \in DOMAIN CurrentEntries(caches)

\* C4: the promise install passes to waitUntil never rejects: a failure to
\* open the store or of any manifest fetch is caught and logged, the promise
\* is fulfilled and the runtime moves the worker on to "installed".
C4_InstallNeverRejects ==
  /\ [](installPromise # "rejected" /\ state # "redundant")
  /\ [][(/\ installPc \in {"opening", "adding"}
         /\ installPc' = "settled"
         /\ \/ InstallOpen(FALSE)
            \/ \E outs \in AssetOutcomeVectors :
                 (\E i \in 1..Len(ASSETS_TO_CACHE) : ~IsOk(outs[i])) /\ InstallAddAll(outs))
          => (installPromise' = "fulfilled" /\ ErrorLogged(log'))]_vars
  /\ [][InstallFinish => state' = "installed"]_vars

\* an install that failed and logged the failure, its worker now activated
C4_Witness ==
  /\ state = "activated"
  /\ installPromise = "fulfilled"
  /\ ErrorLogged(log)

\* a step of the activate handler
ActivateStep ==
  \/ ActivateEvent
  \/ ActivateKeys
  \/ \E n \in pendingDeletes : ActivateDelete(n)
  \/ Activated
  \/ ClaimSettle

\* C5: no step of activation deletes the store named CACHE_NAME or changes
\* its entries, and activation is idempotent: run on a storage an activation
\* has swept it deletes nothing, a sweep of a swept storage is that storage.
C5_ActivationKeepsCurrent ==
  [][/\ ActivateStep => CurrentStore(caches') = CurrentStore(caches)
     /\ (ActivateKeys /\ Sweep(caches) = caches) => pendingDeletes' = {}
     /\ Sweep(Sweep(caches')) = Sweep(caches')
     /\ CurrentStore(Sweep(caches')) = CurrentStore(caches')]_vars

\* a second activation has settled over a populated store, deleting nothing
C5_Witness ==
  /\ installs = 2
  /\ activatePc = "settled"
  /\ deleted = {}
  /\ DOMAIN CurrentEntries(caches) # {}

\* C6: when the promise activate passes to waitUntil is fulfilled, a
\* caches.delete has resolved for every name caches.keys() gave other than
\* CACHE_NAME.
C6_SweepComplete ==
  activatePromise = "fulfilled"
    => \A i \in 1..Len(cacheNames) :
         cacheNames[i] # CACHE_NAME => cacheNames[i] \in deleted

\* an activation that found two old stores has settled, both deleted
C6_Witness ==
  /\ activatePromise = "fulfilled"
  /\ Cardinality(deleted) = 2
  /\ Names(caches) \subseteq {CACHE_NAME}

\* C7: when the network fetch of an intercepted request rejected and the
\* storage holds an entry matching the request, the page receives an entry
\* stored for that request, not an error.
C7_CachedResponseServed ==
  [][\A h \in Slots :
       (fPc[h] = "matching" /\ fPc'[h] # "matching"
          /\ EntriesFor(caches, fReq[h].url) # {})
         => (fPc'[h] = "responded" /\ fResp'[h] \in EntriesFor(caches, fReq[h].url))]_vars

\* a fetch whose network request rejected was answered from the store
C7_Witness ==
  \E h \in Slots :
    /\ fPc[h] = "responded"
    /\ fCached[h].kind = "hit"
    /\ fCached[h].store = CACHE_NAME
    /\ fResp[h] = fCached[h].response

\* C8: every response the cache fallback serves was read from the store
\* named CACHE_NAME.
C8_OnlyCurrentStoreRead ==
  \A h \in Slots :
    /\ fCached[h].kind = "hit" => fCached[h].store = CACHE_NAME
    /\ fRoot[h].kind = "hit" => fRoot[h].store = CACHE_NAME

\* C9 as stated: an intercepted navigation whose network fetch rejected and
\* which has no matching entry is answered with the cached root document.
C9_RootAlwaysServed ==
  \A h \in Slots :
    (fPc[h] = "responded" /\ fRoot[h] # NotLooked) => fResp[h].kind = "response"

\* C9 amended: such a navigation is answered with the entry stored for the
\* worker's root document "/" when the storage holds one, and with no
\* response when it holds none.
C9_RootServedWhenCached ==
  [][\A h \in Slots :
       /\ (fPc[h] = "matching" /\ fPc'[h] # "matching"
             /\ EntriesFor(caches, fReq[h].url) = {} /\ fReq[h].mode = "navigate")
            => fPc'[h] = "matchingRoot"
       /\ (fPc[h] = "matchingRoot" /\ fPc'[h] # "matchingRoot")
            => /\ fPc'[h] = "responded"
               /\ IF EntriesFor(caches, SelfOrigin \o <<"/">>) = {}
                  THEN fResp'[h] = Undefined
                  ELSE fResp'[h] \in EntriesFor(caches, SelfOrigin \o <<"/">>)]_vars

\* an uncached page navigated to offline was answered with the root document
C9_Witness ==
  \E h \in Slots :
    /\ fPc[h] = "responded"
    /\ fReq[h].url = DashURL
    /\ fRoot[h].kind = "hit"
    /\ fResp[h] = fRoot[h].response

\* C10: an intercepted request that is not a navigation, whose network fetch
\* rejected and which has no matching entry, resolves with undefined; the
\* root document is not looked up for it.
C10_NoFallbackForSubresource ==
  \A h \in Slots :
    (fCached[h] = NoMatch /\ fReq[h].mode # "navigate")
      => (fPc[h] = "responded" /\ fResp[h] = Undefined /\ fRoot[h] = NotLooked)

\* an uncached subresource fetched offline resolved with undefined
C10_Witness ==
  \E h \in Slots :
    /\ fCached[h] = NoMatch
    /\ fReq[h].mode = "cors"
    /\ fResp[h] = Undefined

\* the fetch events the network answered: respondWith settled without a
\* cache lookup
FromNetwork(h) == fPc[h] = "responded" /\ fCached[h] = NotLooked

\* the detached cache write of fetch event h is still under way
WritePending(h) == fPut[h] \in {"opening", "putting"}

\* C11: an intercepted GET the network answered with a success status
\* (200..299) went to the page as the network gave it and, once nothing the
\* handler started is left to run, has an entry keyed by its request in the
\* store CACHE_NAME.
C11_SuccessEventuallyCached ==
  \A h \in Slots :
    (FromNetwork(h) /\ fResp[h].status \in 200..299 /\ ~WritePending(h))
      => /\ fResp[h] \in Responses
         /\ fReq[h].url \in DOMAIN CurrentEntries(caches)

\* everything but the record of the last sync event and the console
NotOfSync ==
  <<caches, lifecycleVars, installVars, activateVars, fetchVars, foreignWrites, pushed,
    shown, showing, displayed, clicks, closed, opening, windows>>

\* C12: a sync event tagged 'sync-data' hands waitUntil the promise of
\* syncData(), which is fulfilled and never rejected; a sync event with any
\* other tag hands waitUntil nothing and does nothing; neither changes a
\* cache store.
C12_SyncOnlyForSyncData ==
  [][\A tag \in Tags :
       SyncEvent(tag)
         => /\ caches' = caches
            /\ NotOfSync' = NotOfSync
            /\ IF tag = "sync-data"
               THEN syncPromise' = "fulfilled"
               ELSE syncPromise' = "none" /\ log' = log]_vars

\* after an honoured sync, a sync with another tag was ignored, with the
\* manifest in the cache
C12_Witness ==
  /\ syncTag = "sync-datos"
  /\ syncPromise = "none"
  /\ <<"Service Worker: Sincronizando datos...">> \in log
  /\ SelfOrigin \o <<"/">> \in DOMAIN CurrentEntries(caches)

\* C13: every push event makes one showNotification call; the body is the
\* text that was sent when the push carries a payload (an empty text
\* included) and 'Nueva actualización disponible' when it carries none; the
\* tag and the two actions 'open' and 'close' are the same in every call.
C13_OneNotificationPerPush ==
  /\ Len(shown) = Len(pushed)
  /\ \A i \in 1..Len(shown) :
       /\ shown[i].options.body
            = IF pushed[i] = NoData THEN DefaultBody ELSE pushed[i].text
       /\ shown[i].options.tag = "stock-notification"
       /\ Len(shown[i].options.actions) = 2
       /\ shown[i].options.actions[1].action = "open"
       /\ shown[i].options.actions[2].action = "close"
       /\ \A j \in 1..Len(shown) :
            /\ shown[j].options.tag = shown[i].options.tag
            /\ shown[j].options.actions = shown[i].options.actions

\* a push with a text, then one with the empty text, were both shown
C13_Witness ==
  /\ Len(shown) = 2
  /\ pushed[1] = Sent(<<"3", " ", "k", "ó">>)
  /\ shown[1].options.body = <<"3", " ", "k", "ó">>
  /\ pushed[2] = Sent(<<>>)
  /\ shown[2].options.body = <<>>
  /\ showing = 0

\* C14: every notificationclick closes the notification; openWindow('/') is
\* called exactly when event.action is 'open', and the window it opens is at
\* the worker's root; for 'close', another action or none, nothing but the
\* close happens.
C14_OpenOnlyOnOpenAction ==
  [][/\ \A action \in Actions :
          NotificationClick(action)
            => /\ displayed /\ ~displayed'
               /\ closed' = closed + 1
               /\ windows' = windows
               /\ caches' = caches
               /\ <<syncTag, syncPromise, pushed, shown, showing, log>>'
                    = <<syncTag, syncPromise, pushed, shown, showing, log>>
               /\ IF action = "open" THEN opening' = opening + 1
                  ELSE opening' = opening
     /\ windows' # windows
          => /\ opening > 0 /\ opening' = opening - 1
             /\ windows' = Append(windows, SelfOrigin \o <<"/">>)
             /\ clicks' = clicks]_vars

\* an 'open' click opened the window, a click on the body opened none
C14_Witness ==
  /\ clicks = <<"open", "">>
  /\ closed = 2
  /\ windows = <<SelfOrigin \o <<"/">>>>
  /\ opening = 0
  /\ ~displayed

\* C15: while the worker is activating, pages are claimed (clients.claim()
\* has taken effect) only once no store with a name other than CACHE_NAME
\* is left.
C15_ClaimAfterSweep ==
  (state = "activating" /\ claim = "done")
    => \A n \in Names(caches) : n = CACHE_NAME

\* C16: the promise a handler passed to waitUntil or respondWith is not
\* settled while a cache operation the handler started is pending, and the
\* runtime never stops the worker with a started cache write unfinished.
C16_SettledOnlyWhenWorkDone ==
  /\ installPromise \in {"fulfilled", "rejected"} => installPc \notin {"opening", "adding"}
  /\ activatePromise \in {"fulfilled", "rejected"}
       => (activatePc \notin {"keys", "deleting"} /\ pendingDeletes = {})
  /\ \A h \in Slots :
       /\ fPc[h] = "responded" => ~WritePending(h)
       /\ fPut[h] # "aborted"

\* C17: the cache is looked up only after the network fetch has rejected;
\* when the network fetch resolves, whatever the status and whether or not
\* an entry is cached for the request, the page receives that network
\* response, and a response whose status is not 200 starts no cache write
\* and leaves every cache entry as it was.
C17_NetworkAnswerWins ==
  [][\A h \in Slots :
       /\ (fPc[h] = "fetching" /\ fPc'[h] = "responded")
            => \A response \in Responses :
                 FetchResolve(h, response)
                   => /\ fResp'[h] = response
                      /\ fCached'[h] = NotLooked /\ fRoot'[h] = NotLooked
                      /\ caches' = caches
                      /\ response.status # 200 => fPut'[h] = "none"
       /\ fPc'[h] \in {"matching", "matchingRoot"} => fResp'[h] = Pending
       /\ (fCached'[h] # fCached[h] \/ fRoot'[h] # fRoot[h])
            => (fPc[h] \in {"matching", "matchingRoot"} /\ fResp[h] = Pending)
       /\ fPut'[h] # "none" => (FromNetwork(h))' /\ fResp'[h].status = 200]_vars

\* a 404 from the network went to the page although an entry was cached
C17_Witness ==
  \E h \in Slots :
    /\ FromNetwork(h)
    /\ fResp[h] = Response(404, "b1")
    /\ fPut[h] = "none"
    /\ fReq[h].url \in DOMAIN CurrentEntries(caches)

\* C18: no step removes a key from the store named CACHE_NAME: every URL
\* with an entry in it before the step has one after it (the response stored
\* under the key may be replaced).
C18_KeysNeverShrink ==
  [][DOMAIN CurrentEntries(caches) \subseteq DOMAIN CurrentEntries(caches')]_vars

\* old stores were swept and two fetches were written over the same key,
\* with the manifest entries still present
C18_Witness ==
  /\ deleted # {}
  /\ Len(fWritten) = 2
  /\ fReq[1].url = fReq[2].url
  /\ fClone[1] # fClone[2]
  /\ {ResolveURL(ASSETS_TO_CACHE[i]) : i \in DOMAIN ASSETS_TO_CACHE} \cup {DashURL}
       \subseteq DOMAIN CurrentEntries(caches)

\* the positions of order (a sequence of fetch events) whose request is for u
PositionsFor(order, u) == {i \in 1..Len(order) : fReq[order[i]].url = u}

\* the fetch event for u that comes last in order
LastFor(order, u) ==
  order[CHOOSE i \in PositionsFor(order, u) : \A j \in PositionsFor(order, u) : j <= i]

\* the URLs for which several fetch events got a 200 and every write started
\* for them has completed
AllWritten ==
  {u \in {fReq[fResolved[i]].url : i \in 1..Len(fResolved)} :
     /\ Cardinality(PositionsFor(fResolved, u)) >= 2
     /\ \A i \in PositionsFor(fResolved, u) : fPut[fResolved[i]] = "done"}

\* C19 as stated: once every cache write for a request has finished, the
\* entry of the store CACHE_NAME holds the response of the network fetch
\* that resolved last.
C19_LastResolvedWins ==
  \A u \in AllWritten :
    CurrentEntries(caches)[u] = fClone[LastFor(fResolved, u)]

\* C19 amended: once every cache write for a request has finished, the entry
\* holds the response of the fetch event whose cache.put completed last,
\* whichever network fetch resolved last.
C19_LastWrittenWins ==
  \A u \in AllWritten :
    CurrentEntries(caches)[u] = fClone[LastFor(fWritten, u)]

\* two overlapping fetches of one URL got different 200s and their writes
\* completed in the opposite order
C19_Witness ==
  /\ fResolved = <<1, 2>>
  /\ fWritten = <<2, 1>>
  /\ fReq[1].url = fReq[2].url
  /\ fClone[1] # fClone[2]
  /\ CurrentEntries(caches)[fReq[1].url] = fClone[1]

====
